---------------------------- MODULE Spec2Model ----------------------------
(***************************************************************************)
(* A model of the amd-flash crate: erase-block aligned locations and       *)
(* ranges and the block writes of a flash device (src/src/lib.rs), the     *)
(* arena allocator that carves a reserved header region out of a flash     *)
(* medium (src/src/allocators.rs), and the block sizes with their          *)
(* alignment arithmetic (src/src/block.rs).                                *)
(*                                                                         *)
(* Integer ranges are scaled down: Location (u32 in the source) holds      *)
(* AddrBlocks blocks of the largest block size, usize one block more.      *)
(* As in the source, both limits are multiples of every block size, and    *)
(* all arithmetic keeps its checked / wrapping behaviour at those limits.  *)
(***************************************************************************)
EXTENDS Integers, Sequences, FiniteSets, TLC

(***************************************************************************)
(* Bounds of the model.                                                    *)
(***************************************************************************)
\* Number of blocks of the largest block size that fit in a Location.
AddrBlocks == 4
\* Largest number of successful take_at_least calls followed in one run.
MaxAllocs == 2

\* FlashAlign::erasable_block_size: "Assumed to be a power of two".
\* The allocator tests run with a block size of 4.
BlockSizes == {2, 4}

\* Location is u32: the values below LocLimit.  usize is at least as wide;
\* the model takes it one block larger, so that a `checked_add` overflow
\* and a `try_into` failure can both happen.
LocLimit == 4 * AddrBlocks
UsizeLimit == LocLimit + 4
Locations == 0 .. (LocLimit - 1)
Usizes == 0 .. (UsizeLimit - 1)

(***************************************************************************)
(* Integer helpers of the source language.                                 *)
(***************************************************************************)
RECURSIVE BitAnd(_, _)
\* The `&` operator on unsigned integers.
BitAnd(a, b) ==
    IF a = 0 \/ b = 0 THEN 0
    ELSE (a % 2) * (b % 2) + 2 * BitAnd(a \div 2, b \div 2)

\* usize::wrapping_sub
wrapping_sub(a, b) == (a - b) % UsizeLimit

\* Result<T>: Ok(v) or Err(e)
Ok(v) == [ok |-> TRUE, val |-> v, err |-> "-"]
Err(e) ==
    [ok |-> FALSE, val |-> [location |-> 0, erasable_block_size |-> 0],
     err |-> e]

(***************************************************************************)
(* ErasableLocation                                                        *)
(***************************************************************************)
Loc(l, s) == [location |-> l, erasable_block_size |-> s]

erasable_block_mask(self) == self.erasable_block_size - 1

\* FlashAlign::is_aligned for an instance with block size s
is_aligned(s, location) == BitAnd(location, s - 1) = 0

extent(beginning, end) ==
    IF end.location >= beginning.location
    THEN end.location - beginning.location
    ELSE 0

advance(self, amount) ==
    IF BitAnd(amount, erasable_block_mask(self)) # 0
    THEN Err("Alignment")
    ELSE LET pos == self.location + amount IN
         IF pos >= UsizeLimit THEN Err("Alignment")      \* checked_add
         ELSE IF pos >= LocLimit THEN Err("Alignment")   \* try_into u32
         ELSE Ok(Loc(pos, self.erasable_block_size))

\* advance_at_least rounding down instead of up.
advance_at_least_round_down(self, amount) ==
    LET diff == BitAnd(amount, erasable_block_mask(self))
        amt == amount - diff
    IN advance(self, amt)

\* advance_at_least rounding with the mask of two blocks.
advance_at_least_wide_mask(self, amount) ==
    LET diff == BitAnd(wrapping_sub(0, amount),
                       2 * self.erasable_block_size - 1)
        amt == amount + diff
    IN IF amt >= UsizeLimit THEN Err("Alignment")
       ELSE advance(self, amt)

advance_at_least(self, amount) ==
    LET diff == BitAnd(wrapping_sub(0, amount), erasable_block_mask(self))
        amt == amount + diff
    IN IF amt >= UsizeLimit THEN Err("Alignment")        \* checked_add
       ELSE advance(self, amt)

(***************************************************************************)
(* ErasableRange                                                           *)
(***************************************************************************)
Range(b, e) == [beginning |-> b, end |-> e]
NoRange == Range(Loc(0, 0), Loc(0, 0))

\* ErasableRange::new: the assertion beginning <= end aborts the program.
ErasableRange_new(beginning, end) ==
    [panic |-> ~(beginning.location <= end.location),
     val |-> Range(beginning, end)]

\* split_at_least building the second range from the old beginning.
split_at_least_from_beginning(self, size) ==
    LET x == advance_at_least(self.beginning, size) IN
    IF ~x.ok THEN [panic |-> TRUE, fst |-> NoRange, snd |-> NoRange]
    ELSE LET p == ErasableRange_new(self.beginning, x.val)
             r == ErasableRange_new(self.beginning, self.end)
         IN IF p.panic \/ r.panic
            THEN [panic |-> TRUE, fst |-> NoRange, snd |-> NoRange]
            ELSE [panic |-> FALSE, fst |-> p.val, snd |-> r.val]

\* ErasableRange::split_at_least(self, size) -> (Self, Self).
\* `unwrap` aborts on Err, ErasableRange::new aborts when x_end is past end.
split_at_least(self, size) ==
    LET x == advance_at_least(self.beginning, size) IN
    IF ~x.ok THEN [panic |-> TRUE, fst |-> NoRange, snd |-> NoRange]
    ELSE LET p == ErasableRange_new(self.beginning, x.val)
             r == ErasableRange_new(x.val, self.end)
         IN IF p.panic \/ r.panic
            THEN [panic |-> TRUE, fst |-> NoRange, snd |-> NoRange]
            ELSE [panic |-> FALSE, fst |-> p.val, snd |-> r.val]

capacity(self) == extent(self.beginning, self.end)

\* ErasableRange::take_at_least(&mut self, size) -> Option<ErasableRange>,
\* the method allocators.rs calls.  Its body is not among the source files;
\* it is taken from the description of splitRoundUp: the new boundary is
\* beginning.advance_at_least(size); None, with the range untouched, when
\* that fails or lies past end; otherwise the range becomes
\* [boundary, end) and [beginning, boundary) is returned.
Range_take_at_least(self, size) ==
    LET x == advance_at_least(self.beginning, size) IN
    IF ~x.ok \/ x.val.location > self.end.location
    THEN [some |-> FALSE, taken |-> NoRange, rest |-> self]
    ELSE [some |-> TRUE,
          taken |-> Range(self.beginning, x.val),
          rest |-> Range(x.val, self.end)]

(***************************************************************************)
(* ArenaFlashAllocator                                                     *)
(***************************************************************************)
\* ArenaFlashAllocator::new storing the arena as it was before the header
\* range was taken from it.
ArenaFlashAllocator_new_stale_arena(efh_beginning, efh_size, arena) ==
    LET none == [outcome |-> "panic", efh |-> NoRange, free |-> <<>>] IN
    IF arena.beginning.location # 0 THEN none
    ELSE
    LET a_size == efh_beginning
        t1 == Range_take_at_least(arena, a_size)
    IN IF ~t1.some THEN [none EXCEPT !.outcome = "Size"]
       ELSE IF t1.taken.end.location # a_size THEN none
       ELSE LET t2 == Range_take_at_least(t1.rest, efh_size) IN
            IF ~t2.some THEN [none EXCEPT !.outcome = "Size"]
            ELSE [outcome |-> "Ok", efh |-> t2.taken,
                  free |-> <<t1.taken, t1.rest>>]

\* ArenaFlashAllocator::new without the assertion on where the first range
\* ends.
ArenaFlashAllocator_new_unasserted(efh_beginning, efh_size, arena) ==
    LET none == [outcome |-> "panic", efh |-> NoRange, free |-> <<>>] IN
    IF arena.beginning.location # 0 THEN none
    ELSE
    LET a_size == efh_beginning
        t1 == Range_take_at_least(arena, a_size)
    IN IF ~t1.some THEN [none EXCEPT !.outcome = "Size"]
       ELSE LET t2 == Range_take_at_least(t1.rest, efh_size) IN
            IF ~t2.some THEN [none EXCEPT !.outcome = "Size"]
            ELSE [outcome |-> "Ok", efh |-> t2.taken,
                  free |-> <<t1.taken, t2.rest>>]

\* ArenaFlashAllocator::new going on with an empty header range when the
\* header does not fit.
ArenaFlashAllocator_new_unchecked_efh(efh_beginning, efh_size, arena) ==
    LET none == [outcome |-> "panic", efh |-> NoRange, free |-> <<>>] IN
    IF arena.beginning.location # 0 THEN none
    ELSE
    LET a_size == efh_beginning
        t1 == Range_take_at_least(arena, a_size)
    IN IF ~t1.some THEN [none EXCEPT !.outcome = "Size"]
       ELSE IF t1.taken.end.location # a_size THEN none
       ELSE LET t2 == Range_take_at_least(t1.rest, efh_size) IN
            IF ~t2.some
            THEN [outcome |-> "Ok",
                  efh |-> Range(t1.rest.beginning, t1.rest.beginning),
                  free |-> <<t1.taken, t1.rest>>]
            ELSE [outcome |-> "Ok", efh |-> t2.taken,
                  free |-> <<t1.taken, t2.rest>>]

\* ArenaFlashAllocator::new.  outcome is "Ok", "Size" (Err(Error::Size)) or
\* "panic" (a failed assertion).
ArenaFlashAllocator_new(efh_beginning, efh_size, arena) ==
    LET none == [outcome |-> "panic", efh |-> NoRange, free |-> <<>>] IN
    IF arena.beginning.location # 0 THEN none
    ELSE
    LET a_size == efh_beginning
        t1 == Range_take_at_least(arena, a_size)
    IN IF ~t1.some THEN [none EXCEPT !.outcome = "Size"]
       ELSE IF t1.taken.end.location # a_size THEN none
       ELSE LET t2 == Range_take_at_least(t1.rest, efh_size) IN
            IF ~t2.some THEN [none EXCEPT !.outcome = "Size"]
            ELSE [outcome |-> "Ok", efh |-> t2.taken,
                  free |-> <<t1.taken, t2.rest>>]

\* take_at_least working on copies of the free ranges, which stay as they were.
take_at_least_on_copy(free, size) ==
    LET t0 == Range_take_at_least(free[1], size) IN
    IF t0.some
    THEN [some |-> TRUE, taken |-> t0.taken, free |-> free]
    ELSE LET t1 == Range_take_at_least(free[2], size) IN
         [some |-> t1.some, taken |-> t1.taken, free |-> free]

\* take_at_least trying the free ranges in the other order.
take_at_least_high_first(free, size) ==
    LET t1 == Range_take_at_least(free[2], size) IN
    IF t1.some
    THEN [some |-> TRUE, taken |-> t1.taken, free |-> <<free[1], t1.rest>>]
    ELSE LET t0 == Range_take_at_least(free[1], size) IN
         [some |-> t0.some, taken |-> t0.taken, free |-> <<t0.rest, free[2]>>]

\* take_at_least with `or` for `or_else`: the second free range is taken
\* from before the first is looked at.
take_at_least_eager_or(free, size) ==
    LET t0 == Range_take_at_least(free[1], size)
        t1 == Range_take_at_least(free[2], size)
    IN IF t0.some
       THEN [some |-> TRUE, taken |-> t0.taken, free |-> <<t0.rest, t1.rest>>]
       ELSE [some |-> t1.some, taken |-> t1.taken,
             free |-> <<free[1], t1.rest>>]

\* FlashAllocate::take_at_least for ArenaFlashAllocator
take_at_least(free, size) ==
    LET t0 == Range_take_at_least(free[1], size) IN
    IF t0.some
    THEN [some |-> TRUE, taken |-> t0.taken, free |-> <<t0.rest, free[2]>>]
    ELSE LET t1 == Range_take_at_least(free[2], size) IN
         [some |-> t1.some, taken |-> t1.taken, free |-> <<free[1], t1.rest>>]

max2(a, b) == IF a > b THEN a ELSE b

\* max_contiguous_capacity looking at the first free range only.
max_contiguous_capacity_first(free) == max2(0, capacity(free[1]))

\* max_contiguous_capacity adding the two capacities up.
max_contiguous_capacity_sum(free) == capacity(free[1]) + capacity(free[2])

\* FlashAllocate::max_contiguous_capacity
max_contiguous_capacity(free) ==
    max2(max2(0, capacity(free[1])), capacity(free[2]))

(***************************************************************************)
(* FlashRead / FlashWrite: a flash device and the block writes made on it  *)
(***************************************************************************)
\* What an erased byte reads as (FlashImage::erase_block fills with 0xff).
Erased == 255

\* A device is [kind, erasable_block_size, bad, buf].  kind "contract" is any
\* implementation that keeps the documented contract of the trait; kind
\* "FlashImage" is the implementation in the tests of lib.rs.  bad is the
\* location of a block whose writes fail with Error::Io (-1: none); buf holds
\* one byte for every Location.
Device(k, s, b, m) ==
    [kind |-> k, erasable_block_size |-> s, bad |-> b, buf |-> m]

\* The buffer of n bytes a caller writes: byte j (from 0) has the value j + 1,
\* so that every byte of the data can be told from every other, from an erased
\* byte and from the 0 of stale contents.
Data(n) == [j \in 1 .. n |-> j]

\* FlashImage::read_exact: a copy of buf[location .. location + len].
read_exact(dev, location, len) ==
    [j \in 1 .. len |-> dev.buf[location + j - 1]]

RECURSIVE chunks_exact(_, _)
\* slice::chunks_exact, which leaves a short remainder out.
chunks_exact(buf, n) ==
    IF Len(buf) < n THEN <<>>
    ELSE <<SubSeq(buf, 1, n)>> \o chunks_exact(SubSeq(buf, n + 1, Len(buf)), n)

RECURSIVE chunks(_, _)
\* slice::chunks: pieces of n elements, the last one shorter when the length
\* is not a multiple of n.
chunks(buf, n) ==
    IF Len(buf) = 0 THEN <<>>
    ELSE IF Len(buf) <= n THEN <<buf>>
    ELSE <<SubSeq(buf, 1, n)>> \o chunks(SubSeq(buf, n + 1, Len(buf)), n)

\* FlashImage::erase_and_write_block: copy_from_slice aborts the program
\* unless the buffer is exactly as long as the block.
FlashImage_erase_and_write_block(dev, location, buffer) ==
    IF Len(buffer) # dev.erasable_block_size
    THEN [res |-> "panic", buf |-> dev.buf]
    ELSE [res |-> "Ok",
          buf |-> [a \in DOMAIN dev.buf |->
                     IF /\ a >= location.location
                        /\ a < location.location + dev.erasable_block_size
                     THEN buffer[a - location.location + 1]
                     ELSE dev.buf[a]]]

\* erase_and_write_block writing over the old contents without erasing.
erase_and_write_block_no_erase(dev, location, buffer) ==
    IF dev.kind = "FlashImage"
    THEN FlashImage_erase_and_write_block(dev, location, buffer)
    ELSE IF location.location = dev.bad
    THEN [res |-> "Io", buf |-> dev.buf]
    ELSE [res |-> "Ok",
          buf |-> [a \in DOMAIN dev.buf |->
                     IF /\ a >= location.location
                        /\ a < location.location + Len(buffer)
                     THEN buffer[a - location.location + 1]
                     ELSE dev.buf[a]]]

\* FlashWrite::erase_and_write_block.  "If BUFFER.len() <
\* erasable_block_size(), it has to erase the remainder anyway."
erase_and_write_block(dev, location, buffer) ==
    IF dev.kind = "FlashImage"
    THEN FlashImage_erase_and_write_block(dev, location, buffer)
    ELSE IF location.location = dev.bad
    THEN [res |-> "Io", buf |-> dev.buf]
    ELSE [res |-> "Ok",
          buf |-> [a \in DOMAIN dev.buf |->
                     IF /\ a >= location.location
                        /\ a < location.location + dev.erasable_block_size
                     THEN IF a - location.location < Len(buffer)
                          THEN buffer[a - location.location + 1]
                          ELSE Erased
                     ELSE dev.buf[a]]]

\* One issued erase_and_write_block call.
BlockWrite(location, chunk, res) ==
    [location |-> location.location, chunk |-> chunk, ok |-> res = "Ok"]

RECURSIVE write_loop(_, _, _, _, _)
\* The loop of erase_and_write_blocks from its i-th chunk on.  calls are the
\* erase_and_write_block calls issued so far.
write_loop(dev, location, cs, i, calls) ==
    IF i > Len(cs) THEN [res |-> "Ok", buf |-> dev.buf, calls |-> calls]
    ELSE
    LET w == erase_and_write_block(dev, location, cs[i])
        issued == Append(calls, BlockWrite(location, cs[i], w.res))
    IN IF w.res # "Ok"                                               \* `?`
       THEN [res |-> w.res, buf |-> w.buf, calls |-> issued]
       ELSE IF Len(cs[i]) # dev.erasable_block_size                  \* break
       THEN [res |-> "Ok", buf |-> w.buf, calls |-> issued]
       ELSE LET next == advance(location, dev.erasable_block_size) IN
            IF ~next.ok                                              \* `?`
            THEN [res |-> next.err, buf |-> w.buf, calls |-> issued]
            ELSE write_loop([dev EXCEPT !.buf = w.buf], next.val, cs, i + 1,
                            issued)

\* FlashWrite::erase_and_write_blocks
erase_and_write_blocks(dev, location, buf) ==
    write_loop(dev, location, chunks(buf, dev.erasable_block_size), 1, <<>>)

(***************************************************************************)
(* FlashAlign::erasable_location and block::Size                           *)
(***************************************************************************)
\* block::Size: every multiple of 4 KiB up to 64 KiB.  Scaled down, every
\* multiple of 2 up to 6: powers of two and one size that is not.
LegalSizes == {2, 4, 6}

\* FlashAlign::erasable_location for an instance with block size s
erasable_location(s, location) ==
    IF is_aligned(s, location)
    THEN [some |-> TRUE, val |-> Loc(location, s)]
    ELSE [some |-> FALSE, val |-> Loc(0, 0)]

\* usize::checked_next_multiple_of
checked_next_multiple_of(n, rhs) ==
    LET r == n % rhs IN
    IF r = 0 THEN [some |-> TRUE, val |-> n]
    ELSE IF n + (rhs - r) >= UsizeLimit                   \* checked_add
    THEN [some |-> FALSE, val |-> 0]
    ELSE [some |-> TRUE, val |-> n + (rhs - r)]

\* Size::align_up going to the next multiple even from a multiple.
Size_align_up_past(self, n) ==
    IF n + (self - (n % self)) >= UsizeLimit
    THEN [some |-> FALSE, val |-> 0]
    ELSE [some |-> TRUE, val |-> n + (self - (n % self))]

\* block::Size::align_up
Size_align_up(self, n) == checked_next_multiple_of(n, self)

\* block::Size::is_aligned
Size_is_aligned(self, n) ==
    LET nn == Size_align_up(self, n) IN nn.some /\ nn.val = n

(***************************************************************************)
(* State                                                                   *)
(***************************************************************************)
VARIABLES
    pc,           \* "start", "ready", "Size" (construction failed), "panic"
    args,         \* the arguments of ArenaFlashAllocator::new
    efh_range,    \* ArenaFlashAllocator::_efh_range
    free_ranges,  \* ArenaFlashAllocator::free_ranges
    handed,       \* the ranges returned to callers so far, in order
    last,         \* the Option the last take_at_least call returned
    r_in,         \* a range and a size given to split_at_least
    r_out,        \* what split_at_least made of them
    flash,        \* a flash device: its kind, block size and contents
    w_in,         \* a call of erase_and_write_block(s) on the device
    w_out,        \* what the call returned and the block writes it issued
    l_in,         \* a FlashAlign block size and a raw location
    l_loc,        \* the ErasableLocation the caller holds, if any
    l_out,        \* the last advance / advance_at_least call and its result
    b_in,         \* a block::Size and a number
    b_out         \* what Size::align_up and Size::is_aligned say of them

alloc_vars == <<pc, args, efh_range, free_ranges, handed, last>>
range_vars == <<r_in, r_out>>
write_vars == <<flash, w_in, w_out>>
loc_vars == <<l_in, l_loc, l_out>>
size_vars == <<b_in, b_out>>

vars == <<alloc_vars, range_vars, write_vars, loc_vars, size_vars>>

NoCall == [called |-> FALSE, some |-> FALSE, taken |-> NoRange]
NoArgs == [efh_beginning |-> 0, efh_size |-> 0, arena |-> NoRange]
NoSplitIn == [range |-> NoRange, size |-> 0]
NoSplitOut == [done |-> FALSE, panic |-> FALSE, fst |-> NoRange, snd |-> NoRange]

\* Every range a caller can build: ErasableRange::new of two erasable
\* locations (aligned, by FlashAlign::erasable_location) of one block size
\* with beginning <= end.
Ranges ==
    { Range(Loc(t[1], t[3]), Loc(t[2], t[3])) :
        t \in { u \in Locations \X Locations \X BlockSizes :
                  /\ is_aligned(u[3], u[1]) /\ is_aligned(u[3], u[2])
                  /\ u[1] <= u[2] } }

\* The arenas given to the allocator: the medium from its base, and, for the
\* assertion on the base, those that start one block later.
Arenas ==
    { r \in Ranges :
        r.beginning.location \in {0, r.beginning.erasable_block_size} }

AllocatorIdle ==
    /\ pc = "idle"
    /\ args = NoArgs
    /\ efh_range = NoRange
    /\ free_ranges = <<>>
    /\ handed = <<>>
    /\ last = NoCall

RangeIdle ==
    /\ r_in = NoSplitIn
    /\ r_out = NoSplitOut

NoWriteIn == [op |-> "-", location |-> 0, len |-> 0]
NoWriteOut == [done |-> FALSE, res |-> "-", calls |-> <<>>]
NoLocIn == [block_size |-> 0, raw |-> 0]
NoLoc == [some |-> FALSE, val |-> Loc(0, 0)]
NoLocOut == [op |-> "-", amount |-> 0, from |-> Loc(0, 0), res |-> Err("-")]
NoSizeIn == [size |-> 0, n |-> 0]
NoSizeOut ==
    [up_done |-> FALSE, up |-> [some |-> FALSE, val |-> 0],
     al_done |-> FALSE, aligned |-> FALSE]

WriteIdle ==
    /\ flash = Device("-", 0, -1, <<>>)
    /\ w_in = NoWriteIn
    /\ w_out = NoWriteOut

LocIdle ==
    /\ l_in = NoLocIn
    /\ l_loc = NoLoc
    /\ l_out = NoLocOut

SizeIdle ==
    /\ b_in = NoSizeIn
    /\ b_out = NoSizeOut

(***************************************************************************)
(* The allocator: construction, then any sequence of take_at_least calls.  *)
(***************************************************************************)
Init ==
    /\ pc = "start"
    /\ args \in [efh_beginning : Locations, efh_size : Usizes, arena : Arenas]
    /\ efh_range = NoRange
    /\ free_ranges = <<>>
    /\ handed = <<>>
    /\ last = NoCall
    /\ RangeIdle
    /\ WriteIdle
    /\ LocIdle
    /\ SizeIdle

\* let allocator = ArenaFlashAllocator::new(efh_beginning, efh_size, arena)
New ==
    /\ pc = "start"
    /\ \E r \in {ArenaFlashAllocator_new(args.efh_beginning, args.efh_size,
                                         args.arena)} :
          /\ pc' = IF r.outcome = "Ok" THEN "ready" ELSE r.outcome
          /\ efh_range' = r.efh
          /\ free_ranges' = r.free
    /\ UNCHANGED <<args, handed, last>>
    /\ UNCHANGED <<range_vars, write_vars, loc_vars, size_vars>>

\* allocator.take_at_least(size); the caller keeps the range it is given.
TakeAtLeast(size) ==
    /\ pc = "ready"
    /\ \E r \in {take_at_least(free_ranges, size)} :
       /\ r.some => Len(handed) < MaxAllocs
       /\ free_ranges' = r.free
       /\ handed' = IF r.some THEN Append(handed, r.taken) ELSE handed
       /\ last' = [called |-> TRUE, some |-> r.some, taken |-> r.taken]
    /\ UNCHANGED <<pc, args, efh_range>>
    /\ UNCHANGED <<range_vars, write_vars, loc_vars, size_vars>>

Next ==
    \/ New
    \/ \E size \in Usizes : TakeAtLeast(size)

Spec == Init /\ [][Next]_vars

(***************************************************************************)
(* ErasableRange::split_at_least on every range and size.                  *)
(***************************************************************************)
InitRange ==
    /\ AllocatorIdle
    /\ r_in \in [range : Ranges, size : Usizes]
    /\ r_out = NoSplitOut
    /\ WriteIdle
    /\ LocIdle
    /\ SizeIdle

\* let (a, b) = range.split_at_least(size)
SplitAtLeast ==
    /\ ~r_out.done
    /\ \E r \in {split_at_least(r_in.range, r_in.size)} :
          r_out' = [done |-> TRUE, panic |-> r.panic, fst |-> r.fst,
                    snd |-> r.snd]
    /\ UNCHANGED <<alloc_vars, r_in, write_vars, loc_vars, size_vars>>

NextRange == SplitAtLeast

SpecRange == InitRange /\ [][NextRange]_vars

(***************************************************************************)
(* One erase_and_write_block or erase_and_write_blocks call on a device.   *)
(***************************************************************************)
\* The devices: of either kind, with any block size, with no bad block or
\* one, and holding what earlier use left behind: all erased, or all stale
\* (0).  FlashImage never returns an error.
Devices ==
    { Device(t[1], t[2], t[3], [a \in Locations |-> t[4]]) :
        t \in { u \in {"contract", "FlashImage"} \X BlockSizes
                       \X ({-1} \cup Locations) \X {Erased, 0} :
                  /\ u[3] # -1 => is_aligned(u[2], u[3])
                  /\ u[1] = "FlashImage" => u[3] = -1 } }

\* The calls on a device: at any erasable location of the device, with a
\* buffer of any length; for a single block, no longer than the block.
WriteCalls(dev) ==
    { c \in [op : {"erase_and_write_block", "erase_and_write_blocks"},
             location : Locations, len : Usizes] :
        /\ is_aligned(dev.erasable_block_size, c.location)
        /\ c.op = "erase_and_write_block" => c.len <= dev.erasable_block_size }

InitWrite ==
    /\ AllocatorIdle
    /\ RangeIdle
    /\ LocIdle
    /\ SizeIdle
    /\ flash \in Devices
    /\ w_in \in WriteCalls(flash)
    /\ w_out = NoWriteOut

\* flash.erase_and_write_block(location, &data)
WriteBlock ==
    /\ ~w_out.done
    /\ w_in.op = "erase_and_write_block"
    /\ \E location \in {Loc(w_in.location, flash.erasable_block_size)} :
       \E r \in {erase_and_write_block(flash, location, Data(w_in.len))} :
          /\ flash' = [flash EXCEPT !.buf = r.buf]
          /\ w_out' = [done |-> TRUE, res |-> r.res,
                       calls |-> <<BlockWrite(location, Data(w_in.len),
                                              r.res)>>]
    /\ UNCHANGED <<alloc_vars, range_vars, w_in, loc_vars, size_vars>>

\* flash.erase_and_write_blocks(location, &data)
WriteBlocks ==
    /\ ~w_out.done
    /\ w_in.op = "erase_and_write_blocks"
    /\ \E location \in {Loc(w_in.location, flash.erasable_block_size)} :
       \E r \in {erase_and_write_blocks(flash, location, Data(w_in.len))} :
          /\ flash' = [flash EXCEPT !.buf = r.buf]
          /\ w_out' = [done |-> TRUE, res |-> r.res, calls |-> r.calls]
    /\ UNCHANGED <<alloc_vars, range_vars, w_in, loc_vars, size_vars>>

NextWrite == WriteBlock \/ WriteBlocks

SpecWrite == InitWrite /\ [][NextWrite]_vars

(***************************************************************************)
(* ErasableLocation: made by FlashAlign::erasable_location of a device     *)
(* with a block::Size block size, then advanced any number of times.       *)
(***************************************************************************)
InitLoc ==
    /\ AllocatorIdle
    /\ RangeIdle
    /\ WriteIdle
    /\ SizeIdle
    /\ l_in \in [block_size : LegalSizes, raw : Locations]
    /\ l_loc = NoLoc
    /\ l_out = NoLocOut

\* let location = flash.erasable_location(raw)
ErasableLocation ==
    /\ l_out.op = "-"
    /\ l_loc' = erasable_location(l_in.block_size, l_in.raw)
    /\ l_out' = [NoLocOut EXCEPT !.op = "erasable_location"]
    /\ UNCHANGED <<alloc_vars, range_vars, write_vars, l_in, size_vars>>

\* location = location.advance(amount)?
Advance(amount) ==
    /\ l_loc.some
    /\ \E r \in {advance(l_loc.val, amount)} :
          /\ l_out' = [op |-> "advance", amount |-> amount,
                       from |-> l_loc.val, res |-> r]
          /\ l_loc' = IF r.ok THEN [some |-> TRUE, val |-> r.val] ELSE l_loc
    /\ UNCHANGED <<alloc_vars, range_vars, write_vars, l_in, size_vars>>

\* location = location.advance_at_least(amount)?
AdvanceAtLeast(amount) ==
    /\ l_loc.some
    /\ \E r \in {advance_at_least(l_loc.val, amount)} :
          /\ l_out' = [op |-> "advance_at_least", amount |-> amount,
                       from |-> l_loc.val, res |-> r]
          /\ l_loc' = IF r.ok THEN [some |-> TRUE, val |-> r.val] ELSE l_loc
    /\ UNCHANGED <<alloc_vars, range_vars, write_vars, l_in, size_vars>>

NextLoc ==
    \/ ErasableLocation
    \/ \E amount \in Usizes : Advance(amount)
    \/ \E amount \in Usizes : AdvanceAtLeast(amount)

SpecLoc == InitLoc /\ [][NextLoc]_vars

(***************************************************************************)
(* block::Size::align_up and block::Size::is_aligned on every number.      *)
(***************************************************************************)
InitSize ==
    /\ AllocatorIdle
    /\ RangeIdle
    /\ WriteIdle
    /\ LocIdle
    /\ b_in \in [size : LegalSizes, n : Usizes]
    /\ b_out = NoSizeOut

\* size.align_up(n)
AlignUp ==
    /\ ~b_out.up_done
    /\ b_out' = [b_out EXCEPT !.up_done = TRUE,
                              !.up = Size_align_up(b_in.size, b_in.n)]
    /\ UNCHANGED <<alloc_vars, range_vars, write_vars, loc_vars, b_in>>

\* size.is_aligned(n)
IsAligned ==
    /\ ~b_out.al_done
    /\ b_out' = [b_out EXCEPT !.al_done = TRUE,
                              !.aligned = Size_is_aligned(b_in.size, b_in.n)]
    /\ UNCHANGED <<alloc_vars, range_vars, write_vars, loc_vars, b_in>>

NextSize == AlignUp \/ IsAligned

SpecSize == InitSize /\ [][NextSize]_vars

(***************************************************************************)
(* Vocabulary of the properties.                                           *)
(***************************************************************************)
\* The configured block size, and the medium's end.
BlockSize == args.arena.beginning.erasable_block_size
MediumEnd == args.arena.end.location

\* n rounded up to a multiple of s.
RoundUp(n, s) == ((n + s - 1) \div s) * s

\* The bytes of the half-open span [beginning, end) of a range.
Span(r) == r.beginning.location .. (r.end.location - 1)
Intersects(a, b) == Span(a) \cap Span(b) # {}
Aligned(r) ==
    /\ r.beginning.location % BlockSize = 0
    /\ r.end.location % BlockSize = 0

\* The reserved region as the caller asked for it.
ReservedSpan ==
    args.efh_beginning ..
        (args.efh_beginning + RoundUp(args.efh_size, BlockSize) - 1)

\* A block-aligned reserved offset and a reserved size that end within a
\* medium that starts at 0.
ValidArgs ==
    /\ args.arena.beginning.location = 0
    /\ args.efh_beginning % BlockSize = 0
    /\ args.efh_beginning + args.efh_size <= MediumEnd

\* Everything that owns bytes of the medium: the two free pools, the
\* reserved range, and the ranges handed out.
Pieces == <<free_ranges[1], free_ranges[2], efh_range>> \o handed

(***************************************************************************)
(* C1: for a block-aligned reserved offset and a reserved size with        *)
(* offset + size <= medium size (medium starting at 0), construction       *)
(* succeeds, and no range ever returned intersects                         *)
(* [offset, offset + size rounded up to the block size).                   *)
(***************************************************************************)
C1_ReservedNeverHandedOut ==
    ValidArgs =>
        /\ pc \in {"start", "ready"}
        /\ \A i \in 1 .. Len(handed) : Span(handed[i]) \cap ReservedSpan = {}

\* Both neighbours of a reserved region of unaligned size were handed out.
C1_Witness ==
    /\ pc = "ready" /\ ValidArgs
    /\ args.efh_size % BlockSize # 0
    /\ Len(handed) = 2
    /\ handed[1].beginning.location < handed[1].end.location
    /\ handed[1].end.location = args.efh_beginning
    /\ handed[2].beginning.location = efh_range.end.location
    /\ handed[2].beginning.location < handed[2].end.location

(***************************************************************************)
(* C2: whatever calls were made, failed ones included, every two ranges    *)
(* returned by successful calls are disjoint as half-open byte spans.      *)
(***************************************************************************)
C2_HandedDisjoint ==
    \A i, j \in 1 .. Len(handed) :
        i < j => ~Intersects(handed[i], handed[j])

\* Two non-empty ranges came out of the same pool, then a call failed.
C2_Witness ==
    /\ Len(handed) = 2
    /\ Span(handed[1]) # {} /\ Span(handed[2]) # {}
    /\ handed[2].beginning.location = handed[1].end.location
    /\ last.called /\ ~last.some

(***************************************************************************)
(* C3: every range a successful take_at_least(n) returns has its           *)
(* beginning and its end aligned to the block size and a size >= n.        *)
(***************************************************************************)
C3_AlignedAndLargeEnough ==
    pc = "ready" =>
        /\ \A i \in 1 .. Len(handed) : Aligned(handed[i])
        /\ last.some => last.taken = handed[Len(handed)]
        /\ \A n \in Usizes :
             \A r \in {take_at_least(free_ranges, n)} :
                r.some => Aligned(r.taken) /\ capacity(r.taken) >= n

\* A call returned a range that is longer than one block.
C3_Witness ==
    /\ pc = "ready" /\ last.some
    /\ capacity(last.taken) > BlockSize
    /\ Aligned(last.taken)

(***************************************************************************)
(* C4: in every state of a constructed allocator the low pool, the high    *)
(* pool, the reserved range and the ranges handed out do not overlap and   *)
(* together are exactly the medium [0, mediumEnd): every byte has exactly  *)
(* one owner.                                                              *)
(***************************************************************************)
C4_Partition ==
    pc = "ready" =>
        /\ \A i \in DOMAIN Pieces :
              /\ Pieces[i].beginning.location <= Pieces[i].end.location
              /\ Span(Pieces[i]) \subseteq 0 .. (MediumEnd - 1)
        /\ \A x \in 0 .. (MediumEnd - 1) :
              Cardinality({i \in DOMAIN Pieces : x \in Span(Pieces[i])}) = 1

\* Five non-empty owners: both pools, the reserved range and two ranges
\* handed out, one from each pool.
C4_Witness ==
    /\ pc = "ready" /\ Len(handed) = 2
    /\ \A i \in DOMAIN Pieces : Span(Pieces[i]) # {}
    /\ handed[1].end.location <= efh_range.beginning.location
    /\ handed[2].beginning.location >= efh_range.end.location

(***************************************************************************)
(* C5: in every state of the allocator, take_at_least(n) with              *)
(* n > max_contiguous_capacity() returns None.                             *)
(***************************************************************************)
C5_OverCapacityIsNone ==
    pc = "ready" =>
        \A n \in Usizes :
            n > max_contiguous_capacity(free_ranges)
                => ~take_at_least(free_ranges, n).some

\* A call returned None while both pools still had room, the high pool
\* more than the low one.
C5_Witness ==
    /\ pc = "ready" /\ last.called /\ ~last.some
    /\ 0 < capacity(free_ranges[1])
    /\ capacity(free_ranges[1]) < capacity(free_ranges[2])
    /\ handed # <<>>

(***************************************************************************)
(* C6: take_at_least is first-fit over the two pools in a fixed order.     *)
(* The returned range is a prefix of the low pool whenever the low pool    *)
(* has size rounded up bytes; the high pool serves (the range is a prefix  *)
(* of it and it shrinks) only when the low pool cannot; and a returned     *)
(* range lies within one pool, never across the reserved region.           *)
(***************************************************************************)
PrefixOf(r, pool) ==
    /\ r.beginning = pool.beginning
    /\ r.end.location <= pool.end.location

\* The bytes of r all lie in the pool.
Within(r, pool) ==
    \/ r.beginning.location >= r.end.location
    \/ /\ pool.beginning.location <= r.beginning.location
       /\ r.end.location <= pool.end.location

C6_FirstFit ==
    pc = "ready" =>
        \A n \in Usizes :
            \A r \in {take_at_least(free_ranges, n)} :
               IF RoundUp(n, BlockSize) <= capacity(free_ranges[1])
               THEN /\ r.some
                    /\ PrefixOf(r.taken, free_ranges[1])
                    /\ r.free[2] = free_ranges[2]
               ELSE /\ r.free[1] = free_ranges[1]
                    /\ r.some => /\ PrefixOf(r.taken, free_ranges[2])
                                 /\ Within(r.taken, free_ranges[2])

\* The low pool still has room, and the last range came out of the high
\* pool, past a non-empty reserved range.
C6_Witness ==
    /\ pc = "ready" /\ last.some
    /\ Span(free_ranges[1]) # {}
    /\ Span(efh_range) # {}
    /\ Span(last.taken) # {}
    /\ last.taken.beginning.location >= efh_range.end.location
    /\ last.taken.end = free_ranges[2].beginning

(***************************************************************************)
(* C7: when construction on the medium [0, M) returns an allocator, its    *)
(* low pool is [0, reservedOffset), its reserved range is                  *)
(* [reservedOffset, reservedOffset + reservedSize rounded up), and its     *)
(* high pool is the rest up to M; no allocator exists whose low pool ends  *)
(* anywhere else than at reservedOffset.                                   *)
(***************************************************************************)
C7_ConstructedLayout ==
    pc = "ready" =>
        /\ args.efh_beginning % BlockSize = 0
        /\ free_ranges[1].end.location = args.efh_beginning
        /\ efh_range.beginning.location = args.efh_beginning
        /\ efh_range.end.location
             = args.efh_beginning + RoundUp(args.efh_size, BlockSize)
        /\ free_ranges[2].end.location = MediumEnd
        /\ ~last.called =>
             /\ free_ranges[1].beginning.location = 0
             /\ free_ranges[2].beginning = efh_range.end

\* A freshly constructed allocator with three non-empty parts, the reserved
\* size not a multiple of the block size.
C7_Witness ==
    /\ pc = "ready" /\ ~last.called
    /\ args.efh_size % BlockSize # 0
    /\ \A i \in 1 .. 3 : Span(Pieces[i]) # {}

(***************************************************************************)
(* C8 as stated: construction on a medium [0, M) fails with the Size error *)
(* and produces no allocator when M < reservedOffset or when the reserved  *)
(* region, rounded up, does not fit in what remains after reservedOffset.  *)
(***************************************************************************)
Constructed == pc \notin {"start", "idle"}
NoAllocator == efh_range = NoRange /\ free_ranges = <<>>
MediumTooSmall == MediumEnd < args.efh_beginning
ReservedDoesNotFit ==
    /\ MediumEnd >= args.efh_beginning
    /\ RoundUp(args.efh_size, BlockSize) > MediumEnd - args.efh_beginning

C8_SizeErrorAsStated ==
    (Constructed /\ args.arena.beginning.location = 0
        /\ (MediumTooSmall \/ ReservedDoesNotFit))
    => pc = "Size" /\ NoAllocator

(***************************************************************************)
(* C8, amended: construction on a medium [0, M) fails with the Size error  *)
(* and produces no allocator when M < reservedOffset, or when              *)
(* reservedOffset is block-aligned and the reserved region, rounded up,    *)
(* does not fit in what remains after it.  No outcome but Ok leaves an     *)
(* allocator.                                                              *)
(***************************************************************************)
C8_SizeError ==
    /\ (Constructed /\ args.arena.beginning.location = 0
          /\ \/ MediumTooSmall
             \/ (args.efh_beginning % BlockSize = 0 /\ ReservedDoesNotFit))
       => pc = "Size" /\ NoAllocator
    /\ (Constructed /\ pc # "ready") => NoAllocator

\* Construction failed with Size because an aligned reserved region, whose
\* offset lies inside the medium, reaches past its end.
C8_Witness ==
    /\ pc = "Size" /\ NoAllocator
    /\ args.arena.beginning.location = 0
    /\ args.efh_beginning % BlockSize = 0
    /\ 0 < args.efh_beginning /\ args.efh_beginning < MediumEnd
    /\ ReservedDoesNotFit
    /\ args.efh_size < LocLimit

(***************************************************************************)
(* Vocabulary of the properties of split_at_least.                         *)
(***************************************************************************)
SplitBlockSize == r_in.range.beginning.erasable_block_size
SplitStart == r_in.range.beginning.location
SplitEnd == r_in.range.end.location
SplitReturned == r_out.done /\ ~r_out.panic

\* The rounded size does not fit in the range, or computing the boundary
\* leaves usize or Location.
NoSplitPossible ==
    \/ SplitStart + RoundUp(r_in.size, SplitBlockSize) > SplitEnd
    \/ RoundUp(r_in.size, SplitBlockSize) >= UsizeLimit
    \/ SplitStart + RoundUp(r_in.size, SplitBlockSize) >= LocLimit

(***************************************************************************)
(* C9: whenever a split of [start, end) succeeds, the prefix is [start, b) *)
(* and the remainder [b, end) for one block-aligned b with                 *)
(* start <= b <= end: the two are disjoint and their union is [start, end).*)
(***************************************************************************)
C9_SplitPreservesExtent ==
    SplitReturned =>
        /\ r_out.fst.beginning = r_in.range.beginning
        /\ r_out.snd.end = r_in.range.end
        /\ r_out.fst.end = r_out.snd.beginning
        /\ r_out.fst.end.location % SplitBlockSize = 0
        /\ SplitStart <= r_out.fst.end.location
        /\ r_out.fst.end.location <= SplitEnd
        /\ Span(r_out.fst) \cap Span(r_out.snd) = {}
        /\ Span(r_out.fst) \cup Span(r_out.snd) = Span(r_in.range)

\* A split at a size that is not a multiple of the block size, with a
\* non-empty prefix and a non-empty remainder.
C9_Witness ==
    /\ SplitReturned
    /\ r_in.size % SplitBlockSize # 0
    /\ Span(r_out.fst) # {} /\ Span(r_out.snd) # {}

(***************************************************************************)
(* C10: when start + size rounded up would exceed end, or the rounding or  *)
(* the addition overflows, the split reports "no split possible" as an     *)
(* ordinary outcome: it does not abort and returns no error, and the range *)
(* is left as it was.                                                      *)
(***************************************************************************)
C10_NoSplitIsOrdinaryOutcome ==
    (r_out.done /\ NoSplitPossible) => ~r_out.panic

(***************************************************************************)
(* Vocabulary of the properties of the block writes.                       *)
(***************************************************************************)
WriteBlockSize == flash.erasable_block_size

\* The number of blocks n bytes take: ceil(n / s).
CeilDiv(n, s) == (n + s - 1) \div s
ChunkCount == CeilDiv(w_in.len, WriteBlockSize)

min2(a, b) == IF a < b THEN a ELSE b

\* Bytes [i * B, min((i + 1) * B, len)) of the data, for i from 0.
DataChunk(i) ==
    SubSeq(Data(w_in.len), i * WriteBlockSize + 1,
           min2((i + 1) * WriteBlockSize, w_in.len))

WroteBlocks == w_out.done /\ w_in.op = "erase_and_write_blocks"
NoBlockWriteFailed == \A i \in 1 .. Len(w_out.calls) : w_out.calls[i].ok

\* Every chunk of the data starts at a location of the address space.
ChunksAddressable ==
    ChunkCount > 0 => w_in.location + (ChunkCount - 1) * WriteBlockSize < LocLimit

\* The issued calls are those of the chunks 0, 1, ... in order, each at its
\* own block, and only the last one may be short.
CallsFollowChunks ==
    /\ \A i \in 1 .. Len(w_out.calls) :
          /\ w_out.calls[i].location = w_in.location + (i - 1) * WriteBlockSize
          /\ w_out.calls[i].chunk = DataChunk(i - 1)
    /\ \A i \in 1 .. (Len(w_out.calls) - 1) :
          Len(w_out.calls[i].chunk) = WriteBlockSize

\* The erasable locations of the device.
BlockStarts == { b \in Locations : is_aligned(WriteBlockSize, b) }

\* A chunk as a whole block reads after it was written: the rest is erased.
PaddedChunk(chunk) ==
    [j \in 1 .. WriteBlockSize |-> IF j <= Len(chunk) THEN chunk[j] ELSE Erased]

(***************************************************************************)
(* C11 as stated: erase_and_write_blocks(location, data), when no          *)
(* erase_and_write_block call fails, issues exactly ceil(len(data) / B)    *)
(* calls in increasing address order, the i-th at location + i * B with    *)
(* bytes [i * B, min((i + 1) * B, len)) of the data; only the last chunk   *)
(* can be short.                                                           *)
(***************************************************************************)
C11_AllChunksWrittenAsStated ==
    (WroteBlocks /\ NoBlockWriteFailed) =>
        /\ Len(w_out.calls) = ChunkCount
        /\ CallsFollowChunks

(***************************************************************************)
(* C11: the same, for data whose every chunk starts inside the address     *)
(* space: location + (ceil(len / B) - 1) * B is a Location.  (Otherwise    *)
(* the calls issued are those of the chunks that do start inside it.)      *)
(***************************************************************************)
C11_AllChunksWritten ==
    (WroteBlocks /\ NoBlockWriteFailed) =>
        /\ CallsFollowChunks
        /\ ChunksAddressable => Len(w_out.calls) = ChunkCount
        /\ ~ChunksAddressable =>
              /\ Len(w_out.calls) < ChunkCount
              /\ w_in.location + Len(w_out.calls) * WriteBlockSize = LocLimit

\* Two full chunks and a short one, written in that order.
C11_Witness ==
    /\ WroteBlocks /\ NoBlockWriteFailed
    /\ w_out.res = "Ok"
    /\ Len(w_out.calls) = 3
    /\ Len(w_out.calls[3].chunk) < WriteBlockSize
    /\ w_in.location > 0

C19_CompleteWriteSucceeds ==
    (WroteBlocks /\ NoBlockWriteFailed /\ Len(w_out.calls) = ChunkCount) =>
        w_out.res = "Ok"

(***************************************************************************)
(* C13: for every legal block size S, powers of two or not, every          *)
(* ErasableLocation obtained from erasable_location, advance and           *)
(* advance_at_least has location mod S = 0, and erasable_location accepts  *)
(* a raw location iff it is a multiple of S.                               *)
(***************************************************************************)
C13_LocationsAreMultiples ==
    /\ l_loc.some => l_loc.val.location % l_in.block_size = 0
    /\ l_out.op # "-" => (l_loc.some <=> l_in.raw % l_in.block_size = 0)

(***************************************************************************)
(* C14: advance(amount) returns the location at location + amount iff      *)
(* amount is a multiple of the block size and the sum is a Location; it    *)
(* fails with Alignment when amount is not a multiple, and with Overflow   *)
(* when amount is one and the sum is not a Location.  (Power-of-two block  *)
(* sizes only, where the mask arithmetic of the source is exact.)          *)
(***************************************************************************)
C14_AdvanceErrors ==
    (l_out.op = "advance" /\ l_in.block_size \in BlockSizes) =>
        LET multiple == l_out.amount % l_in.block_size = 0
            fits == l_out.from.location + l_out.amount < LocLimit
        IN /\ l_out.res.ok <=> (multiple /\ fits)
           /\ l_out.res.ok =>
                 l_out.res.val = Loc(l_out.from.location + l_out.amount,
                                     l_in.block_size)
           /\ ~multiple => l_out.res.err = "Alignment"
           /\ (multiple /\ ~fits) => l_out.res.err = "Overflow"

(***************************************************************************)
(* C15: for every block size and every n, align_up(n) is the smallest      *)
(* multiple of the block size that is >= n (so align_up(0) = 0 and         *)
(* align_up(n) = n for a multiple n), and None exactly when that multiple  *)
(* does not fit in a usize; is_aligned(n) is true iff n is a multiple of   *)
(* the block size.                                                         *)
(***************************************************************************)
C15_AlignUpIsLeastMultiple ==
    LET least == CHOOSE m \in b_in.n .. (b_in.n + b_in.size) :
                    /\ m % b_in.size = 0
                    /\ \A k \in b_in.n .. (m - 1) : k % b_in.size # 0
    IN /\ b_out.up_done =>
            /\ b_out.up.some <=> least < UsizeLimit
            /\ b_out.up.some => b_out.up.val = least
       /\ b_out.al_done => (b_out.aligned <=> b_in.n % b_in.size = 0)

\* A number that is not a multiple, rounded up, for the size that is not a
\* power of two.
C15_Witness ==
    /\ b_out.up_done /\ b_out.al_done
    /\ BitAnd(b_in.size, b_in.size - 1) # 0
    /\ ~b_out.aligned
    /\ b_out.up.some /\ b_out.up.val > b_in.n

(***************************************************************************)
(* Vocabulary of the properties of the allocator's calls.                  *)
(***************************************************************************)
\* The free bytes of both pools together.
TotalFree(free) == capacity(free[1]) + capacity(free[2])

\* The number of non-empty ranges handed out.
NonEmptyHanded ==
    Cardinality({ i \in 1 .. Len(handed) : Span(handed[i]) # {} })

\* A step of a take_at_least call (a call that changes nothing is a
\* stuttering step).
CallStep == pc = "ready" /\ pc' = "ready"

(***************************************************************************)
(* C16: a successful take_at_least(n) does not over-allocate: the size of  *)
(* the returned range is exactly the smallest multiple of the block size   *)
(* >= n (n for a multiple n, an empty range for 0), and the beginning of   *)
(* the pool that served it moves up by exactly that amount.                *)
(***************************************************************************)
C16_ExactRoundedSize ==
    pc = "ready" =>
        \A n \in Usizes :
            \A r \in {take_at_least(free_ranges, n)} :
               r.some =>
                  /\ capacity(r.taken) = RoundUp(n, BlockSize)
                  /\ TotalFree(r.free)
                       = TotalFree(free_ranges) - RoundUp(n, BlockSize)
                  /\ \E i \in 1 .. 2 :
                        /\ r.free[i].beginning.location
                             = free_ranges[i].beginning.location
                                 + RoundUp(n, BlockSize)
                        /\ r.free[3 - i] = free_ranges[3 - i]

\* Calls for nothing and for a whole number of blocks: an empty range, then
\* one of exactly two blocks.
C16_Witness ==
    /\ pc = "ready" /\ Len(handed) = 2
    /\ capacity(handed[1]) = 0
    /\ capacity(handed[2]) = 2 * BlockSize
    /\ last.some /\ last.taken = handed[2]

(***************************************************************************)
(* C17: in every state of the allocator take_at_least(n) succeeds for      *)
(* every n <= max_contiguous_capacity(), hence iff n is at most that;      *)
(* max_contiguous_capacity() is the larger of the two pools' sizes.        *)
(***************************************************************************)
C17_UpToCapacityIsSome ==
    pc = "ready" =>
        /\ max_contiguous_capacity(free_ranges)
             = max2(capacity(free_ranges[1]), capacity(free_ranges[2]))
        /\ \A n \in Usizes :
              take_at_least(free_ranges, n).some
                 <=> n <= max_contiguous_capacity(free_ranges)

\* The high pool is the larger one, the low pool is not empty, and the last
\* call took all of what the high pool then had.
C17_Witness ==
    /\ pc = "ready" /\ last.some
    /\ 0 < capacity(free_ranges[1])
    /\ capacity(free_ranges[1]) < capacity(free_ranges[2])
    /\ last.taken.end = free_ranges[2].beginning
    /\ Span(last.taken) # {}

(***************************************************************************)
(* C18: a take_at_least call that returns None leaves the allocator as it  *)
(* was: both pools, the reserved range and max_contiguous_capacity(); a    *)
(* successful call changes only the beginning of the one pool that served  *)
(* it: the other pool, both ends, the reserved range and the ranges        *)
(* returned earlier stay as they were.                                     *)
(***************************************************************************)
C18_Frame ==
    [][ CallStep =>
          /\ efh_range' = efh_range
          /\ SubSeq(handed', 1, Len(handed)) = handed
          /\ \A i \in 1 .. 2 : free_ranges'[i].end = free_ranges[i].end
          /\ ~last'.some =>
                /\ free_ranges' = free_ranges
                /\ handed' = handed
                /\ max_contiguous_capacity(free_ranges')
                     = max_contiguous_capacity(free_ranges)
          /\ last'.some =>
                /\ handed' = Append(handed, last'.taken)
                /\ \E i \in 1 .. 2 :
                      /\ last'.taken.beginning = free_ranges[i].beginning
                      /\ free_ranges'[i].beginning = last'.taken.end
                      /\ free_ranges'[3 - i] = free_ranges[3 - i]
      ]_vars

\* A non-empty range came out of the low pool while the high pool had room
\* for it too, and then a call failed.
C18_Witness ==
    /\ pc = "ready" /\ Len(handed) = 1
    /\ Span(handed[1]) # {}
    /\ handed[1].end = free_ranges[1].beginning
    /\ capacity(free_ranges[2]) >= capacity(handed[1])
    /\ last.called /\ ~last.some

(***************************************************************************)
(* C20: free space only shrinks and runs out.  Over the take_at_least      *)
(* calls neither pool's size nor max_contiguous_capacity() ever grows;     *)
(* every successful call with n > 0 lowers the total free capacity by      *)
(* exactly n rounded up, which is at least one block; so the calls with    *)
(* n > 0 that succeeded are never more than (medium size - reserved size   *)
(* rounded up) / block size, and once nothing is free every such call      *)
(* returns None.                                                           *)
(***************************************************************************)
C20_FreeSpaceOnlyShrinks ==
    /\ [][ CallStep =>
             /\ \A i \in 1 .. 2 :
                   capacity(free_ranges'[i]) <= capacity(free_ranges[i])
             /\ max_contiguous_capacity(free_ranges')
                  <= max_contiguous_capacity(free_ranges)
             /\ handed' # handed =>
                   TotalFree(free_ranges')
                     = TotalFree(free_ranges) - capacity(last'.taken)
       ]_vars
    /\ [](pc = "ready" =>
            /\ \A n \in Usizes \ {0} :
                  \A r \in {take_at_least(free_ranges, n)} :
                     IF r.some
                     THEN /\ RoundUp(n, BlockSize) >= BlockSize
                          /\ TotalFree(r.free)
                               = TotalFree(free_ranges) - RoundUp(n, BlockSize)
                     ELSE r.free = free_ranges
            /\ NonEmptyHanded * BlockSize
                 <= MediumEnd - capacity(efh_range) - TotalFree(free_ranges)
            /\ TotalFree(free_ranges) = 0 =>
                  \A n \in Usizes \ {0} : ~take_at_least(free_ranges, n).some)

\* Both pools were taken whole, and the next call found nothing.
C20_Witness ==
    /\ pc = "ready" /\ NonEmptyHanded = 2
    /\ TotalFree(free_ranges) = 0
    /\ last.called /\ ~last.some
    /\ Span(efh_range) # {}

=============================================================================
